---- MODULE Spec2Model ----
(***************************************************************************)
(* Model of the four Blender batch scripts of the repository:             *)
(*   scripts/blender/import_bodyparts3d.py         (script "import")      *)
(*   scripts/blender/build_custom_anatomy.py       (script "build")       *)
(*   scripts/blender/generate_anatomy_procedural.py (script "generate")   *)
(*   scripts/create_morph_targets.py               (script "morph")       *)
(* Each script is a one-shot pipeline over the host's scene.  The state   *)
(* is the scene (objects with name, polygons, materials, custom           *)
(* properties, modifiers, shape keys), the files written, the position in *)
(* the pipeline and a log of the operations performed.  The host inputs   *)
(* (command line, files on disk, shader inputs of the host version) are   *)
(* chosen in Init.                                                         *)
(***************************************************************************)
EXTENDS Integers, Sequences, FiniteSets, TLC

VARIABLES
    script,        \* which of the four scripts runs
    pc,            \* position in the script's main pipeline
    status,        \* "running", "exit0", "exit1" (sys.exit(1)), "exception"
    argv,          \* build: the tokens of sys.argv after the launch prefix
    zpath,         \* build: z_anatomy_path parsed by main
    refExists,     \* build: Path(z_anatomy_path).exists()
    refNames,      \* build: names of the objects stored in the reference file
    reference_objects, \* build: dict lower-cased name -> object id
    dirExists,     \* import: MODELS_INPUT_DIR.exists()
    files,         \* import: the <fma_code>.obj files present in the input dir
    objsPerFile,   \* import: objects contained in every OBJ file
    polysPerObj,   \* import: polygons of every object of an OBJ file
    objMtl,        \* import: material slots an OBJ object arrives with
    bsdfInputs,    \* subsurface inputs the host's Principled BSDF node has
    objects,       \* bpy.data.objects, in creation order
    active,        \* id of bpy.context.active_object (0 = None)
    nextId,        \* next fresh object id
    idx,           \* loop index into the script's table
    imported_count,
    skipped_count,
    created_objects, \* build: ids appended to created_objects
    variants,      \* morph: sequence of [name, id] (the variants dict)
    written,       \* GLB file names written, in order
    export_calls,  \* the calls of the host's glTF exporter, in order
    log            \* operations performed, in order

vars == << script, pc, status, argv, zpath, refExists, refNames,
           reference_objects, dirExists, files, objsPerFile, polysPerObj,
           objMtl, bsdfInputs, objects, active, nextId, idx, imported_count,
           skipped_count, created_objects, variants, written, export_calls,
           log >>

-----------------------------------------------------------------------------
(* Bounds of the model.                                                    *)

MaxObjsPerFile == 2
MaxArgv == 3
MaxRefs == 2
MaxVariants == 3
MaxVerts == 2
MaxPolys == 9
MaxCalls == 3

-----------------------------------------------------------------------------
(* Values shared by the scripts.                                           *)

None == "None"
NoVal == "<unset>"
PyTrue == "True"
PyFalse == "False"

PropKeys == {"system", "system_code", "fma_code", "clickable",
             "isOrgan", "organName", "displayColor"}

NoProps == [k \in PropKeys |-> NoVal]

\* The optional subsurface inputs of the Principled BSDF node.
SubsurfaceInputs == {"Subsurface", "Subsurface Weight", "Subsurface Color"}

\* The scale of a mesh relative to the primitive it was made from, in
\* millionths: a primitive as added by the host.
UnitScale == << 1000000, 1000000, 1000000 >>

\* obj.scale = s followed by transform_apply(scale=True) on a mesh whose
\* applied scale is sc; s is in thousandths.
ApplyScale(sc, s) == [i \in 1..3 |-> (sc[i] * s[i]) \div 1000]

NewObj(id, name, origin, polys, nmats) ==
    [ id |-> id, name |-> name, type |-> "MESH", origin |-> origin,
      polys |-> polys,
      materials |-> [i \in 1..nmats |-> [name |-> "Mat_file", color |-> NoVal,
                                         subsurface |-> NoVal, linked |-> TRUE]],
      props |-> NoProps, mods |-> << >>, hidden |-> FALSE,
      verts |-> << >>, shape_keys |-> << >>,
      primitive |-> NoVal, location |-> << 0, 0, 0 >>, scale |-> UnitScale,
      subsurf_levels |-> 0, decimate |-> << >> ]

Ev(op, arg) == [op |-> op, arg |-> arg]

\* The keyword arguments of bpy.ops.export_scene.gltf the claims speak of;
\* an argument the call does not pass is NoVal (the host's default applies).
ExportKw(format, cameras, lights, draco) ==
    [ export_format |-> format, export_cameras |-> cameras,
      export_lights |-> lights,
      export_draco_mesh_compression_enable |-> draco ]

RECURSIVE SumPolys(_)
SumPolys(objs) ==
    IF objs = << >> THEN 0
    ELSE (IF Head(objs).type = "MESH" THEN Head(objs).polys ELSE 0)
         + SumPolys(Tail(objs))

\* One call of the exporter: the file, the keyword arguments and the polygons
\* of the scene it writes.
ExportCall(filepath, kw, objs) ==
    [ filepath |-> filepath, kw |-> kw, scene_polygons |-> SumPolys(objs) ]

Pow10(k) == IF k = 0 THEN 1 ELSE IF k = 1 THEN 10 ELSE IF k = 2 THEN 100
            ELSE IF k = 3 THEN 1000 ELSE IF k = 4 THEN 10000
            ELSE IF k = 5 THEN 100000 ELSE 1000000

\* floor(r * 10^k / T) by long division, so that no product exceeds 32 bits.
RECURSIVE MulPow10Div(_, _, _)
MulPow10Div(r, k, T) ==
    IF k = 0 THEN r \div T
    ELSE (r \div T) * Pow10(k) + MulPow10Div((r % T) * 10, k - 1, T)

\* floor(n * t / T): the polygons a Decimate modifier of ratio t / T leaves
\* of a mesh with n polygons.
RECURSIVE MulDivFloor(_, _, _, _)
MulDivFloor(n, t, T, k) ==
    IF t > 0 /\ t % 10 = 0 /\ k < 6 THEN MulDivFloor(n, t \div 10, T, k + 1)
    ELSE MulPow10Div(n * t, k, T)

Decimated(n, t, T) == MulDivFloor(n, t, T, 0)

\* The float num / den kept as the pair it was computed from.
Ratio(num, den) == [num |-> num, den |-> den]

-----------------------------------------------------------------------------
(* import_bodyparts3d.py                                                   *)

ANATOMY_MODELS == <<
    [fma |-> "FMA50801", name |-> "brain",              system |-> "NERVOUS",        color |-> "#9B59B6"],
    [fma |-> "FMA7647",  name |-> "spinal_cord",        system |-> "NERVOUS",        color |-> "#8E44AD"],
    [fma |-> "FMA7088",  name |-> "heart",              system |-> "CARDIOVASCULAR", color |-> "#E74C3C"],
    [fma |-> "FMA3986",  name |-> "aorta",              system |-> "CARDIOVASCULAR", color |-> "#C0392B"],
    [fma |-> "FMA4720",  name |-> "superior_vena_cava", system |-> "CARDIOVASCULAR", color |-> "#8B0000"],
    [fma |-> "FMA7195",  name |-> "lung_right",         system |-> "RESPIRATORY",    color |-> "#5DADE2"],
    [fma |-> "FMA7196",  name |-> "lung_left",          system |-> "RESPIRATORY",    color |-> "#5DADE2"],
    [fma |-> "FMA7394",  name |-> "trachea",            system |-> "RESPIRATORY",    color |-> "#3498DB"],
    [fma |-> "FMA13322", name |-> "diaphragm",          system |-> "RESPIRATORY",    color |-> "#2E86C1"],
    [fma |-> "FMA7197",  name |-> "liver",              system |-> "DIGESTIVE",      color |-> "#D68910"],
    [fma |-> "FMA7148",  name |-> "stomach",            system |-> "DIGESTIVE",      color |-> "#E67E22"],
    [fma |-> "FMA7199",  name |-> "gallbladder",        system |-> "DIGESTIVE",      color |-> "#F39C12"],
    [fma |-> "FMA7203",  name |-> "pancreas",           system |-> "DIGESTIVE",      color |-> "#CA6F1E"],
    [fma |-> "FMA7201",  name |-> "spleen",             system |-> "DIGESTIVE",      color |-> "#7D3C98"],
    [fma |-> "FMA7200",  name |-> "small_intestine",    system |-> "DIGESTIVE",      color |-> "#F5B041"],
    [fma |-> "FMA14543", name |-> "large_intestine",    system |-> "DIGESTIVE",      color |-> "#DC7633"],
    [fma |-> "FMA7203",  name |-> "kidney_right",       system |-> "URINARY",        color |-> "#F4D03F"],
    [fma |-> "FMA7204",  name |-> "kidney_left",        system |-> "URINARY",        color |-> "#F4D03F"],
    [fma |-> "FMA15900", name |-> "bladder",            system |-> "URINARY",        color |-> "#F7DC6F"],
    [fma |-> "FMA46565", name |-> "skull",              system |-> "SKELETAL",       color |-> "#E8E8E8"],
    [fma |-> "FMA7647",  name |-> "spine",              system |-> "SKELETAL",       color |-> "#D5D8DC"],
    [fma |-> "FMA9468",  name |-> "ribs",               system |-> "SKELETAL",       color |-> "#BDC3C7"],
    [fma |-> "FMA16585", name |-> "pelvis",             system |-> "SKELETAL",       color |-> "#AAB7B8"] >>

TARGET_POLYGON_COUNT == [high_detail |-> 500000, low_detail |-> 50000]

\* The collections import_anatomy_models creates, one per organ system.
ImportCollections == {"NERVOUS", "CARDIOVASCULAR", "RESPIRATORY", "DIGESTIVE",
                      "URINARY", "SKELETAL"}

\* OBJ files that may be present in the input directory: the first and the
\* last entry's, the two codes that two entries share and one file no entry
\* names.
FilePool == {"FMA50801", "FMA7647", "FMA7203", "FMA16585", "FMA00000"}

\* Polygon counts an imported object may have.
PolyChoices == {40000, 600000}

\* create_material: the two subsurface inputs are indexed unguarded, so a
\* missing one raises KeyError out of the function.
Import_create_material(name, color_hex, inputs) ==
    IF "Subsurface" \in inputs /\ "Subsurface Color" \in inputs
    THEN [ok |-> TRUE,
          mat |-> [name |-> "Mat_" \o name, color |-> color_hex,
                   subsurface |-> "Subsurface", linked |-> TRUE]]
    ELSE [ok |-> FALSE,
          mat |-> [name |-> "Mat_" \o name, color |-> color_hex,
                   subsurface |-> NoVal, linked |-> FALSE]]


\* import_obj_model without the test that the file exists.
Import_import_obj_model_unchecked(e, firstId) ==
    [k \in 1..objsPerFile |->
        NewObj(firstId + k - 1,
               IF k = 1 THEN e.name ELSE e.fma \o "_part",
               IF k = 1 THEN "imported" ELSE "imported_extra",
               polysPerObj, objMtl)]

\* import_obj_model: the objects the call adds to the scene (none when the
\* file is missing) with the first selected one renamed to organ_name.
Import_import_obj_model(e, firstId) ==
    IF e.fma \notin files THEN << >>
    ELSE [k \in 1..objsPerFile |->
            NewObj(firstId + k - 1,
                   IF k = 1 THEN e.name ELSE e.fma \o "_part",
                   IF k = 1 THEN "imported" ELSE "imported_extra",
                   polysPerObj, objMtl)]

\* The custom properties import_anatomy_models sets on an imported object.
Import_tag(props, e) ==
    [props EXCEPT !["system_code"] = e.system,
                  !["fma_code"] = e.fma,
                  !["clickable"] = PyTrue]

\* The material assignment of import_anatomy_models: slot 0 is replaced
\* when the object arrived with materials, else the material is appended.
Import_assign_material(mats, mat) ==
    IF Len(mats) > 0 THEN [mats EXCEPT ![1] = mat] ELSE Append(mats, mat)

\* The directory check with its condition lost.
Import_input_dir_missing_never(exists) == FALSE

\* main: "if not MODELS_INPUT_DIR.exists()".
Import_input_dir_missing(exists) == ~exists

\* The count check comparing with "<" in place of "==".
Import_no_models_negative(count) == count < 0

\* main: "if imported_count == 0".
Import_no_models(count) == count = 0

\* main: the input-directory check.
Import_main_check_dir ==
    /\ script = "import" /\ pc = "main" /\ status = "running"
    /\ IF Import_input_dir_missing(dirExists)
       THEN /\ log' = log \o << Ev("print_error", "Input directory not found"),
                                Ev("sys.exit", "1") >>
            /\ status' = "exit1"
            /\ pc' = "done"
       ELSE /\ log' = Append(log, Ev("glob", "*.obj"))
            /\ pc' = "import_anatomy_models"
            /\ UNCHANGED status
    /\ UNCHANGED << script, argv, zpath, refExists, refNames, reference_objects,
                    dirExists, files, objsPerFile, polysPerObj, objMtl,
                    bsdfInputs, objects, active, nextId, idx, imported_count,
                    skipped_count, created_objects, variants, written, export_calls >>

\* import_anatomy_models up to its loop: clear_scene and the collections.
Import_import_anatomy_models_begin ==
    /\ script = "import" /\ pc = "import_anatomy_models" /\ status = "running"
    /\ objects' = << >>
    /\ active' = 0
    /\ imported_count' = 0
    /\ skipped_count' = 0
    /\ idx' = 1
    /\ log' = log \o << Ev("call", "import_anatomy_models"),
                        Ev("clear_scene", "clear_scene"),
                        Ev("collections", "6") >>
    /\ pc' = "import_loop"
    /\ UNCHANGED << script, status, argv, zpath, refExists, refNames,
                    reference_objects, dirExists, files, objsPerFile,
                    polysPerObj, objMtl, bsdfInputs, nextId, created_objects,
                    variants, written, export_calls >>

\* One iteration of the loop of import_anatomy_models.
Import_import_one ==
    /\ script = "import" /\ pc = "import_loop" /\ status = "running"
    /\ idx <= Len(ANATOMY_MODELS)
    /\ LET e == ANATOMY_MODELS[idx]
           got == Import_import_obj_model(e, nextId)
           m == Import_create_material(e.name, e.color, bsdfInputs)
           called == IF e.fma \in files
                     THEN << Ev("import_obj", e.fma) >>
                     ELSE << Ev("print_warning", e.fma) >>
       IN  /\ nextId' = nextId + Len(got)
           /\ idx' = idx + 1
           /\ IF got = << >>
              THEN /\ skipped_count' = skipped_count + 1
                   /\ objects' = objects
                   /\ log' = log \o called
                   /\ UNCHANGED << imported_count, status, pc, active >>
              ELSE IF ~m.ok
              THEN \* KeyError out of create_material: the script stops here
                   /\ objects' = objects \o got
                   /\ active' = got[1].id
                   /\ log' = log \o called \o
                             << Ev("rename", e.name), Ev("edit_mesh", e.name),
                                Ev("exception", "KeyError") >>
                   /\ status' = "exception"
                   /\ pc' = "done"
                   /\ UNCHANGED << imported_count, skipped_count >>
              ELSE /\ objects' = objects \o
                         [got EXCEPT ![1].materials =
                                         Import_assign_material(@, m.mat),
                                     ![1].props = Import_tag(@, e)]
                   /\ active' = got[1].id
                   /\ log' = log \o called \o
                             << Ev("rename", e.name), Ev("edit_mesh", e.name),
                                Ev("material", e.name), Ev("tag", e.name) >>
                   /\ imported_count' = imported_count + 1
                   /\ UNCHANGED << skipped_count, status, pc >>
    /\ UNCHANGED << script, argv, zpath, refExists, refNames, reference_objects,
                    dirExists, files, objsPerFile, polysPerObj, objMtl,
                    bsdfInputs, created_objects, variants, written, export_calls >>

\* The end of import_anatomy_models and main's check of its result.
Import_main_check_count ==
    /\ script = "import" /\ pc = "import_loop" /\ status = "running"
    /\ idx > Len(ANATOMY_MODELS)
    /\ IF Import_no_models(imported_count)
       THEN /\ log' = log \o << Ev("print_error", "No models were imported"),
                                Ev("sys.exit", "1") >>
            /\ status' = "exit1"
            /\ pc' = "done"
       ELSE /\ log' = log
            /\ pc' = "optimize_high"
            /\ UNCHANGED status
    /\ UNCHANGED << script, argv, zpath, refExists, refNames, reference_objects,
                    dirExists, files, objsPerFile, polysPerObj, objMtl,
                    bsdfInputs, objects, active, nextId, idx, imported_count,
                    skipped_count, created_objects, variants, written, export_calls >>

\* decimate_mesh on one object of the scene.
Import_decimate_mesh(o, t, T) ==
    IF o.type # "MESH" THEN o
    ELSE [o EXCEPT !.polys = Decimated(o.polys, t, T),
                   !.mods = Append(@, "Decimate"),
                   !.decimate = Append(@, Ratio(t, T))]

\* optimize_models with the ratio taken against each object's own count.
Import_optimize_models_per_object(objs, target_detail) ==
    LET target_total == TARGET_POLYGON_COUNT[target_detail]
        total_polygons == SumPolys(objs)
    IN  IF total_polygons <= target_total THEN objs
        ELSE [i \in 1..Len(objs) |->
                Import_decimate_mesh(objs[i], target_total, objs[i].polys)]

\* optimize_models: the scene it leaves.
Import_optimize_models(objs, target_detail) ==
    LET target_total == TARGET_POLYGON_COUNT[target_detail]
        total_polygons == SumPolys(objs)
    IN  IF total_polygons <= target_total THEN objs
        ELSE [i \in 1..Len(objs) |->
                Import_decimate_mesh(objs[i], target_total, total_polygons)]

\* The log entries of optimize_models: one modifier per decimated mesh.
Import_optimize_log(objs, target_detail) ==
    LET meshes == SelectSeq(objs, LAMBDA o : o.type = "MESH")
    IN  << Ev("call", "optimize_models"), Ev("target_detail", target_detail) >> \o
        (IF SumPolys(objs) <= TARGET_POLYGON_COUNT[target_detail] THEN << >>
         ELSE [i \in 1..Len(meshes) |-> Ev("modifier", meshes[i].name)])

Import_optimize(at, detail, next) ==
    /\ script = "import" /\ pc = at /\ status = "running"
    /\ objects' = Import_optimize_models(objects, detail)
    /\ log' = log \o Import_optimize_log(objects, detail)
    /\ active' = IF SumPolys(objects) <= TARGET_POLYGON_COUNT[detail]
                    \/ objects = << >>
                 THEN active ELSE objects[Len(objects)].id
    /\ pc' = next
    /\ UNCHANGED << script, status, argv, zpath, refExists, refNames,
                    reference_objects, dirExists, files, objsPerFile,
                    polysPerObj, objMtl, bsdfInputs, nextId, idx,
                    imported_count, skipped_count, created_objects, variants,
                    written, export_calls >>

\* The exporter arguments of export_gltf of import_bodyparts3d.
Import_export_kw == ExportKw("GLB", PyFalse, PyFalse, PyTrue)

\* export_gltf(output_filename) of import_bodyparts3d.
Import_export_gltf(at, output_filename, next) ==
    /\ script = "import" /\ pc = at /\ status = "running"
    /\ written' = Append(written, output_filename)
    /\ export_calls' = Append(export_calls,
                            ExportCall(output_filename, Import_export_kw, objects))
    /\ log' = log \o << Ev("call", "export_gltf"), Ev("mkdir", "MODELS_OUTPUT_DIR"),
                        Ev("export", output_filename) >>
    /\ pc' = next
    /\ UNCHANGED << script, status, argv, zpath, refExists, refNames,
                    reference_objects, dirExists, files, objsPerFile,
                    polysPerObj, objMtl, bsdfInputs, objects, active, nextId,
                    idx, imported_count, skipped_count, created_objects,
                    variants >>

Import_main_optimize_high == Import_optimize("optimize_high", "high_detail", "export_high")

Import_main_export_high == Import_export_gltf("export_high", "human_anatomy_high.glb", "optimize_low")

\* The second pass run against the high-detail target.
Import_main_optimize_low_high_detail ==
    Import_optimize("optimize_low", "high_detail", "export_low")

Import_main_optimize_low == Import_optimize("optimize_low", "low_detail", "export_low")

Import_main_export_low == Import_export_gltf("export_low", "human_anatomy_low.glb", "finish")

\* The end of a main that ran through: the interpreter returns normally.
Main_finish ==
    /\ pc = "finish" /\ status = "running"
    /\ status' = "exit0"
    /\ pc' = "done"
    /\ UNCHANGED << script, argv, zpath, refExists, refNames, reference_objects,
                    dirExists, files, objsPerFile, polysPerObj, objMtl,
                    bsdfInputs, objects, active, nextId, idx, imported_count,
                    skipped_count, created_objects, variants, written, export_calls, log >>

-----------------------------------------------------------------------------
(* build_custom_anatomy.py                                                 *)

OUTPUT_FILE_build == "human_anatomy_custom.glb"

POLYGON_BUDGET ==
    [ brain |-> 5000, heart |-> 8000, lungs |-> 6000, liver |-> 6000,
      stomach |-> 3000, intestines |-> 8000, kidneys |-> 2000,
      bladder |-> 1000, spleen |-> 1500, pancreas |-> 2000,
      skeleton |-> 15000, vessels |-> 5000, nerves |-> 3000 ]

\* Sizes and positions are in thousandths of a scene unit.
ANATOMY_STRUCTURES == <<
    [name |-> "brain",           type |-> "complex",     position |-> <<0, 1520, 20>>,    size |-> <<120, 140, 110>>, color |-> "#E8B4D9", system |-> "NERVOUS",        subdivisions |-> 4],
    [name |-> "spinal_cord",     type |-> "tube",        position |-> <<0, 820, -50>>,    size |-> <<12, 750, 12>>,   color |-> "#9B59B6", system |-> "NERVOUS",        subdivisions |-> 2],
    [name |-> "heart",           type |-> "complex",     position |-> <<20, 980, 50>>,    size |-> <<90, 110, 80>>,   color |-> "#E74C3C", system |-> "CARDIOVASCULAR", subdivisions |-> 4],
    [name |-> "aorta",           type |-> "curved_tube", position |-> <<20, 1050, 20>>,   size |-> <<18, 450, 18>>,   color |-> "#C0392B", system |-> "CARDIOVASCULAR", subdivisions |-> 3],
    [name |-> "lung_right",      type |-> "complex",     position |-> <<110, 1000, 0>>,   size |-> <<110, 220, 90>>,  color |-> "#FFB6C1", system |-> "RESPIRATORY",    subdivisions |-> 3],
    [name |-> "lung_left",       type |-> "complex",     position |-> <<-90, 1000, 0>>,   size |-> <<90, 200, 80>>,   color |-> "#FFB6C1", system |-> "RESPIRATORY",    subdivisions |-> 3],
    [name |-> "trachea",         type |-> "tube",        position |-> <<0, 1250, 50>>,    size |-> <<15, 120, 15>>,   color |-> "#E8A4C9", system |-> "RESPIRATORY",    subdivisions |-> 2],
    [name |-> "diaphragm",       type |-> "dome",        position |-> <<0, 700, 0>>,      size |-> <<200, 30, 150>>,  color |-> "#C48793", system |-> "RESPIRATORY",    subdivisions |-> 2],
    [name |-> "liver",           type |-> "complex",     position |-> <<90, 850, 50>>,    size |-> <<160, 120, 100>>, color |-> "#8B4513", system |-> "DIGESTIVE",      subdivisions |-> 3],
    [name |-> "stomach",         type |-> "pouch",       position |-> <<-50, 780, 80>>,   size |-> <<90, 130, 90>>,   color |-> "#FFDAB9", system |-> "DIGESTIVE",      subdivisions |-> 3],
    [name |-> "small_intestine", type |-> "coiled_tube", position |-> <<0, 580, 90>>,     size |-> <<160, 180, 130>>, color |-> "#FFE4B5", system |-> "DIGESTIVE",      subdivisions |-> 4],
    [name |-> "large_intestine", type |-> "tube_frame",  position |-> <<0, 550, 110>>,    size |-> <<180, 220, 140>>, color |-> "#E8C4A9", system |-> "DIGESTIVE",      subdivisions |-> 3],
    [name |-> "pancreas",        type |-> "elongated",   position |-> <<0, 760, 20>>,     size |-> <<130, 30, 30>>,   color |-> "#DEB887", system |-> "DIGESTIVE",      subdivisions |-> 2],
    [name |-> "spleen",          type |-> "oval",        position |-> <<-120, 850, 20>>,  size |-> <<50, 90, 40>>,    color |-> "#8B008B", system |-> "DIGESTIVE",      subdivisions |-> 2],
    [name |-> "kidney_right",    type |-> "bean",        position |-> <<90, 700, -50>>,   size |-> <<50, 90, 40>>,    color |-> "#8B0000", system |-> "URINARY",        subdivisions |-> 3],
    [name |-> "kidney_left",     type |-> "bean",        position |-> <<-90, 700, -50>>,  size |-> <<50, 90, 40>>,    color |-> "#8B0000", system |-> "URINARY",        subdivisions |-> 3],
    [name |-> "bladder",         type |-> "sphere",      position |-> <<0, 420, 80>>,     size |-> <<70, 80, 60>>,    color |-> "#FFD700", system |-> "URINARY",        subdivisions |-> 3] >>

\* sys.argv up to the script path; the tokens after it are the input.
LaunchPrefix == << "blender", "--background", "--python", "build_custom_anatomy.py" >>

ArgTokens == {"--", "--reference", "ref.blend", "-x"}

\* Names the objects of a reference file may carry.
RefNamePool == {"Heart", "heart", "Skin"}

\* str.lower on the names of RefNamePool and of the structures.
Lower(s) == CASE s = "Heart" -> "heart" [] s = "Skin" -> "skin" [] OTHER -> s

Range(f) == {f[i] : i \in DOMAIN f}

\* list.index: the first position of x in seq (1-based).
IndexOf(seq, x) == CHOOSE i \in 1..Len(seq) :
                       seq[i] = x /\ \A j \in 1..(i - 1) : seq[j] # x

\* The parsing with '--reference' looked up in all of sys.argv.
Build_parse_reference_anywhere(sys_argv) ==
    IF "--reference" \in Range(sys_argv)
    THEN LET i == IndexOf(sys_argv, "--reference")
         IN  IF i + 1 <= Len(sys_argv) THEN sys_argv[i + 1] ELSE None
    ELSE None

\* The argument parsing of main: z_anatomy_path for a given sys.argv.
Build_parse_reference(sys_argv) ==
    IF "--" \in Range(sys_argv)
    THEN LET rest == SubSeq(sys_argv, IndexOf(sys_argv, "--") + 1, Len(sys_argv))
         IN  IF "--reference" \in Range(rest)
             THEN LET i == IndexOf(rest, "--reference")
                  IN  IF i + 1 <= Len(rest) THEN rest[i + 1] ELSE None
             ELSE None
    ELSE None

\* bpy.data name uniqueness: a name already taken gets a numeric suffix.
UniqueName(objs, name) ==
    IF \E i \in 1..Len(objs) : objs[i].name = name THEN name \o ".001" ELSE name

\* Faces of the host's UV sphere with the given segments and rings.
UvSpherePolys(segments, ring_count) == segments * ring_count

\* Faces after applying a subdivision-surface modifier of the given level:
\* every triangle of the two pole fans becomes 3 quads, every quad 4.
RECURSIVE Subdivided(_, _, _)
Subdivided(tris, quads, levels) ==
    IF levels = 0 THEN tris + quads
    ELSE Subdivided(0, 3 * tris + 4 * quads, levels - 1)

\* create_complex_mesh: polygons of the mesh it returns.
Build_complex_polys(subdivisions) ==
    Subdivided(2 * 16, UvSpherePolys(16, 8) - 2 * 16, subdivisions)

\* The dispatch without its last branch (the types defaulting to the
\* complex mesh).
Build_dispatch_no_default(type) ==
    IF type = "complex" THEN "create_complex_mesh"
    ELSE IF type = "tube" THEN "create_tube_mesh"
    ELSE IF type = "bean" THEN "create_bean_mesh"
    ELSE IF type = "dome" THEN "create_dome_mesh"
    ELSE IF type = "coiled_tube" THEN "create_coiled_tube_mesh"
    ELSE None

\* The dispatch of build_anatomy_model on spec['type'].
Build_dispatch(type) ==
    IF type = "complex" THEN "create_complex_mesh"
    ELSE IF type = "tube" THEN "create_tube_mesh"
    ELSE IF type = "bean" THEN "create_bean_mesh"
    ELSE IF type = "dome" THEN "create_dome_mesh"
    ELSE IF type = "coiled_tube" THEN "create_coiled_tube_mesh"
    ELSE IF type \in {"pouch", "oval", "elongated", "sphere", "curved_tube",
                      "tube_frame"} THEN "create_complex_mesh"
    ELSE None

\* Polygons of the mesh each creator returns.
Build_created_polys(creator, subdivisions) ==
    IF creator \in {"create_complex_mesh", "create_bean_mesh"}
    THEN Build_complex_polys(subdivisions)
    ELSE IF creator = "create_tube_mesh" THEN 16 + 2
    ELSE IF creator = "create_dome_mesh" THEN UvSpherePolys(24, 12) \div 2
    ELSE 12 * 12

\* Modifiers each creator applies.
Build_created_mods(creator) ==
    IF creator \in {"create_complex_mesh", "create_bean_mesh"}
    THEN << "Subdivision" >> ELSE << >>

\* The host primitive each creator adds.
Build_created_primitive(creator) ==
    IF creator = "create_tube_mesh" THEN "cylinder"
    ELSE IF creator = "create_coiled_tube_mesh" THEN "bezier_curve"
    ELSE "uv_sphere"

\* create_complex_mesh: the scale applied to the unit sphere.
Build_complex_scale(size) == ApplyScale(UnitScale, size)

\* create_bean_mesh: create_complex_mesh has applied size; the object is
\* then scaled by (size[0], size[1], size[2] * 0.8) and the scale applied.
Build_bean_scale(size) ==
    ApplyScale(Build_complex_scale(size),
               << size[1], size[2], (size[3] * 8) \div 10 >>)

\* The scale each creator has applied to the mesh it returns.
Build_created_scale(creator, size) ==
    IF creator = "create_complex_mesh" THEN Build_complex_scale(size)
    ELSE IF creator = "create_bean_mesh" THEN Build_bean_scale(size)
    ELSE IF creator = "create_dome_mesh" THEN ApplyScale(UnitScale, size)
    ELSE UnitScale

\* The level of the subdivision modifier each creator applies (0: none).
Build_created_levels(creator, subdivisions) ==
    IF creator \in {"create_complex_mesh", "create_bean_mesh"}
    THEN subdivisions ELSE 0

\* create_organ_material: only 'Subsurface Weight' is looked up, guarded.
Build_create_organ_material(name, color_hex, inputs) ==
    [ name |-> "Mat_" \o name, color |-> color_hex,
      subsurface |-> IF "Subsurface Weight" \in inputs
                     THEN "Subsurface Weight" ELSE NoVal,
      linked |-> TRUE ]

\* optimize_mesh with the early return also taken one polygon above the
\* target.
Build_optimize_mesh_slack(o, target_polygons) ==
    IF o.type # "MESH" THEN o
    ELSE IF o.polys <= target_polygons + 1 THEN o
    ELSE [o EXCEPT !.polys = Decimated(o.polys, target_polygons, o.polys),
                   !.mods = Append(@, "Decimate"),
                   !.decimate = Append(@, Ratio(target_polygons, o.polys))]

\* optimize_mesh: the division target_polygons / current_polygons is by zero.
Build_optimize_mesh_raises(o, target_polygons) ==
    o.type = "MESH" /\ ~(o.polys <= target_polygons) /\ o.polys = 0

\* optimize_mesh(obj, target_polygons).
Build_optimize_mesh(o, target_polygons) ==
    IF o.type # "MESH" THEN o
    ELSE IF o.polys <= target_polygons THEN o
    ELSE [o EXCEPT !.polys = Decimated(o.polys, target_polygons, o.polys),
                   !.mods = Append(@, "Decimate"),
                   !.decimate = Append(@, Ratio(target_polygons, o.polys))]

\* The loop body tagging the object with the descriptor's type.
Build_finish_object_type_tag(o, spec, inputs) ==
    LET tagged == [o EXCEPT
                     !.materials = Append(@, Build_create_organ_material(
                                                 spec.name, spec.color, inputs)),
                     !.props = [@ EXCEPT !["system"] = spec.type,
                                         !["clickable"] = PyTrue]]
    IN  IF spec.name \in DOMAIN POLYGON_BUDGET
        THEN Build_optimize_mesh(tagged, POLYGON_BUDGET[spec.name])
        ELSE tagged

\* The body of the loop of build_anatomy_model for a created object.
Build_finish_object(o, spec, inputs) ==
    LET tagged == [o EXCEPT
                     !.materials = Append(@, Build_create_organ_material(
                                                 spec.name, spec.color, inputs)),
                     !.props = [@ EXCEPT !["system"] = spec.system,
                                         !["clickable"] = PyTrue]]
    IN  IF spec.name \in DOMAIN POLYGON_BUDGET
        THEN Build_optimize_mesh(tagged, POLYGON_BUDGET[spec.name])
        ELSE tagged

\* dict assignment d[key] = id on a dict kept as a sequence of entries.
DictSet(d, key, id) ==
    IF \E i \in 1..Len(d) : d[i].key = key
    THEN [i \in 1..Len(d) |-> IF d[i].key = key THEN [key |-> key, id |-> id]
                              ELSE d[i]]
    ELSE Append(d, [key |-> key, id |-> id])

RECURSIVE Build_reference_dict(_, _, _)
Build_reference_dict(names, firstId, d) ==
    IF names = << >> THEN d
    ELSE Build_reference_dict(Tail(names), firstId + 1,
                              DictSet(d, Lower(Head(names)), firstId))

\* Path(p).exists() for the tokens of ArgTokens.
PathExists(p) == p = "ref.blend" /\ refExists

\* main: the command line is parsed.
Build_main_parse ==
    /\ script = "build" /\ pc = "main" /\ status = "running"
    /\ zpath' = Build_parse_reference(LaunchPrefix \o argv)
    /\ log' = Append(log, Ev("parse_args", Build_parse_reference(LaunchPrefix \o argv)))
    /\ pc' = "build_clear"
    /\ UNCHANGED << script, status, argv, refExists, refNames,
                    reference_objects, dirExists, files, objsPerFile,
                    polysPerObj, objMtl, bsdfInputs, objects, active, nextId,
                    idx, imported_count, skipped_count, created_objects,
                    variants, written, export_calls >>

\* build_anatomy_model with the clearing of the scene left out.
Build_clear_scene_skipped ==
    /\ script = "build" /\ pc = "build_clear" /\ status = "running"
    /\ log' = log \o << Ev("call", "build_anatomy_model") >>
    /\ pc' = "build_load_reference"
    /\ UNCHANGED << script, status, argv, zpath, refExists, refNames,
                    reference_objects, dirExists, files, objsPerFile,
                    polysPerObj, objMtl, bsdfInputs, objects, active, nextId,
                    idx, imported_count, skipped_count, created_objects,
                    variants, written, export_calls >>

\* build_anatomy_model: the scene is cleared.
Build_clear_scene ==
    /\ script = "build" /\ pc = "build_clear" /\ status = "running"
    /\ objects' = << >>
    /\ active' = 0
    /\ log' = log \o << Ev("call", "build_anatomy_model"),
                        Ev("clear_scene", "select_all+delete") >>
    /\ pc' = "build_load_reference"
    /\ UNCHANGED << script, status, argv, zpath, refExists, refNames,
                    reference_objects, dirExists, files, objsPerFile,
                    polysPerObj, objMtl, bsdfInputs, nextId, idx,
                    imported_count, skipped_count, created_objects, variants,
                    written, export_calls >>

\* build_anatomy_model: the reference file is loaded when given and present.
Build_load_reference ==
    /\ script = "build" /\ pc = "build_load_reference" /\ status = "running"
    /\ IF zpath # None /\ zpath # "" /\ PathExists(zpath)
       THEN /\ objects' = objects \o
                  [k \in 1..Len(refNames) |->
                     [NewObj(nextId + k - 1, refNames[k], "reference", 0, 0)
                        EXCEPT !.hidden = TRUE]]
            /\ nextId' = nextId + Len(refNames)
            /\ reference_objects' = Build_reference_dict(refNames, nextId, << >>)
            /\ log' = log \o [k \in 1..Len(refNames) |->
                                Ev("load_reference", refNames[k])]
       ELSE UNCHANGED << objects, nextId, reference_objects, log >>
    /\ created_objects' = << >>
    /\ idx' = 1
    /\ pc' = "build_loop"
    /\ UNCHANGED << script, status, argv, zpath, refExists, refNames,
                    dirExists, files, objsPerFile, polysPerObj, objMtl,
                    bsdfInputs, active, imported_count, skipped_count,
                    variants, written, export_calls >>

\* build_anatomy_model: one iteration of the loop over ANATOMY_STRUCTURES.
Build_create_one ==
    /\ script = "build" /\ pc = "build_loop" /\ status = "running"
    /\ idx <= Len(ANATOMY_STRUCTURES)
    /\ LET spec == ANATOMY_STRUCTURES[idx]
           creator == Build_dispatch(spec.type)
           fresh == [NewObj(nextId, UniqueName(objects, spec.name), "created",
                            Build_created_polys(creator, spec.subdivisions), 0)
                       EXCEPT !.mods = Build_created_mods(creator),
                              !.primitive = Build_created_primitive(creator),
                              !.location = spec.position,
                              !.scale = Build_created_scale(creator, spec.size),
                              !.subsurf_levels =
                                  Build_created_levels(creator, spec.subdivisions)]
           done == Build_finish_object(fresh, spec, bsdfInputs)
       IN  IF creator = None
           THEN /\ log' = Append(log, Ev("skip", spec.name))
                /\ UNCHANGED << objects, active, nextId, created_objects >>
           ELSE /\ objects' = Append(objects, done)
                /\ active' = nextId
                /\ nextId' = nextId + 1
                /\ created_objects' = Append(created_objects, nextId)
                /\ log' = log \o << Ev("create", spec.name) >>
                          \o [k \in 1..Len(fresh.mods) |-> Ev("modifier", spec.name)]
                          \o << Ev("material", spec.name), Ev("tag", spec.name) >>
                          \o (IF spec.name \in DOMAIN POLYGON_BUDGET
                              THEN << Ev("optimize_mesh", spec.name) >>
                              ELSE << >>)
                          \o [k \in 1..(Len(done.mods) - Len(fresh.mods)) |->
                                Ev("modifier", spec.name)]
    /\ idx' = idx + 1
    /\ UNCHANGED << script, pc, status, argv, zpath, refExists, refNames,
                    reference_objects, dirExists, files, objsPerFile,
                    polysPerObj, objMtl, bsdfInputs, imported_count,
                    skipped_count, variants, written, export_calls >>

\* build_anatomy_model removing every object whose lower-cased name is a key
\* of reference_objects.
Build_remove_references_by_name ==
    /\ script = "build" /\ pc = "build_loop" /\ status = "running"
    /\ idx > Len(ANATOMY_STRUCTURES)
    /\ LET keys == {reference_objects[i].key : i \in 1..Len(reference_objects)}
       IN  /\ objects' = SelectSeq(objects, LAMBDA o : Lower(o.name) \notin keys)
           /\ log' = log \o [i \in 1..Len(reference_objects) |->
                               Ev("remove", reference_objects[i].key)]
    /\ pc' = "export_model"
    /\ UNCHANGED << script, status, argv, zpath, refExists, refNames,
                    reference_objects, dirExists, files, objsPerFile,
                    polysPerObj, objMtl, bsdfInputs, active, nextId, idx,
                    imported_count, skipped_count, created_objects, variants,
                    written, export_calls >>

\* build_anatomy_model: the reference objects are removed and it returns.
Build_remove_references ==
    /\ script = "build" /\ pc = "build_loop" /\ status = "running"
    /\ idx > Len(ANATOMY_STRUCTURES)
    /\ LET gone == {reference_objects[i].id : i \in 1..Len(reference_objects)}
       IN  /\ objects' = SelectSeq(objects, LAMBDA o : o.id \notin gone)
           /\ log' = log \o [i \in 1..Len(reference_objects) |->
                               Ev("remove", reference_objects[i].key)]
    /\ pc' = "export_model"
    /\ UNCHANGED << script, status, argv, zpath, refExists, refNames,
                    reference_objects, dirExists, files, objsPerFile,
                    polysPerObj, objMtl, bsdfInputs, active, nextId, idx,
                    imported_count, skipped_count, created_objects, variants,
                    written, export_calls >>

\* The exporter arguments of export_model: no Draco argument is passed.
Build_export_kw == ExportKw("GLB", PyFalse, PyFalse, NoVal)

\* export_model.
Build_export_model ==
    /\ script = "build" /\ pc = "export_model" /\ status = "running"
    /\ written' = Append(written, OUTPUT_FILE_build)
    /\ export_calls' = Append(export_calls,
                            ExportCall(OUTPUT_FILE_build, Build_export_kw, objects))
    /\ log' = log \o << Ev("call", "export_model"), Ev("mkdir", "OUTPUT_DIR"),
                        Ev("export", OUTPUT_FILE_build) >>
    /\ pc' = "finish"
    /\ UNCHANGED << script, status, argv, zpath, refExists, refNames,
                    reference_objects, dirExists, files, objsPerFile,
                    polysPerObj, objMtl, bsdfInputs, objects, active, nextId,
                    idx, imported_count, skipped_count, created_objects,
                    variants >>

-----------------------------------------------------------------------------
(* generate_anatomy_procedural.py                                          *)

OUTPUT_FILE_generate == "human_anatomy.glb"

\* The create_organ calls main makes through the create_* functions, in
\* call order.
GenerateCalls == <<
    [fn |-> "create_body_outline", name |-> "head", geometry_type |-> "sphere", color |-> "#FFD7BE", system |-> "BODY"],
    [fn |-> "create_body_outline", name |-> "neck", geometry_type |-> "cylinder", color |-> "#FFD7BE", system |-> "BODY"],
    [fn |-> "create_body_outline", name |-> "torso_upper", geometry_type |-> "ellipsoid", color |-> "#FFD7BE", system |-> "BODY"],
    [fn |-> "create_body_outline", name |-> "torso_lower", geometry_type |-> "ellipsoid", color |-> "#FFD7BE", system |-> "BODY"],
    [fn |-> "create_body_outline", name |-> "arm_upper_left", geometry_type |-> "cylinder", color |-> "#FFD7BE", system |-> "BODY"],
    [fn |-> "create_body_outline", name |-> "arm_lower_left", geometry_type |-> "cylinder", color |-> "#FFD7BE", system |-> "BODY"],
    [fn |-> "create_body_outline", name |-> "arm_upper_right", geometry_type |-> "cylinder", color |-> "#FFD7BE", system |-> "BODY"],
    [fn |-> "create_body_outline", name |-> "arm_lower_right", geometry_type |-> "cylinder", color |-> "#FFD7BE", system |-> "BODY"],
    [fn |-> "create_body_outline", name |-> "leg_upper_left", geometry_type |-> "cylinder", color |-> "#FFD7BE", system |-> "BODY"],
    [fn |-> "create_body_outline", name |-> "leg_lower_left", geometry_type |-> "cylinder", color |-> "#FFD7BE", system |-> "BODY"],
    [fn |-> "create_body_outline", name |-> "leg_upper_right", geometry_type |-> "cylinder", color |-> "#FFD7BE", system |-> "BODY"],
    [fn |-> "create_body_outline", name |-> "leg_lower_right", geometry_type |-> "cylinder", color |-> "#FFD7BE", system |-> "BODY"],
    [fn |-> "create_brain", name |-> "brain", geometry_type |-> "ellipsoid", color |-> "#E8B4D9", system |-> "NERVOUS"],
    [fn |-> "create_heart", name |-> "heart", geometry_type |-> "ellipsoid", color |-> "#E74C3C", system |-> "CARDIOVASCULAR"],
    [fn |-> "create_lungs", name |-> "lung_right", geometry_type |-> "ellipsoid", color |-> "#FFB6C1", system |-> "RESPIRATORY"],
    [fn |-> "create_lungs", name |-> "lung_left", geometry_type |-> "ellipsoid", color |-> "#FFB6C1", system |-> "RESPIRATORY"],
    [fn |-> "create_digestive_system", name |-> "liver", geometry_type |-> "ellipsoid", color |-> "#8B4513", system |-> "DIGESTIVE"],
    [fn |-> "create_digestive_system", name |-> "stomach", geometry_type |-> "ellipsoid", color |-> "#FFDAB9", system |-> "DIGESTIVE"],
    [fn |-> "create_digestive_system", name |-> "intestines", geometry_type |-> "ellipsoid", color |-> "#FFE4B5", system |-> "DIGESTIVE"],
    [fn |-> "create_digestive_system", name |-> "pancreas", geometry_type |-> "cylinder", color |-> "#DEB887", system |-> "DIGESTIVE"],
    [fn |-> "create_digestive_system", name |-> "spleen", geometry_type |-> "ellipsoid", color |-> "#8B008B", system |-> "DIGESTIVE"],
    [fn |-> "create_urinary_system", name |-> "kidney_left", geometry_type |-> "ellipsoid", color |-> "#8B0000", system |-> "URINARY"],
    [fn |-> "create_urinary_system", name |-> "kidney_right", geometry_type |-> "ellipsoid", color |-> "#8B0000", system |-> "URINARY"],
    [fn |-> "create_urinary_system", name |-> "bladder", geometry_type |-> "sphere", color |-> "#FFD700", system |-> "URINARY"],
    [fn |-> "create_skeletal_system", name |-> "skull", geometry_type |-> "sphere", color |-> "#E8E8E8", system |-> "SKELETAL"],
    [fn |-> "create_skeletal_system", name |-> "spine", geometry_type |-> "cylinder", color |-> "#D3D3D3", system |-> "SKELETAL"],
    [fn |-> "create_skeletal_system", name |-> "rib_0", geometry_type |-> "ellipsoid", color |-> "#D3D3D3", system |-> "SKELETAL"],
    [fn |-> "create_skeletal_system", name |-> "rib_1", geometry_type |-> "ellipsoid", color |-> "#D3D3D3", system |-> "SKELETAL"],
    [fn |-> "create_skeletal_system", name |-> "rib_2", geometry_type |-> "ellipsoid", color |-> "#D3D3D3", system |-> "SKELETAL"],
    [fn |-> "create_skeletal_system", name |-> "rib_3", geometry_type |-> "ellipsoid", color |-> "#D3D3D3", system |-> "SKELETAL"],
    [fn |-> "create_skeletal_system", name |-> "rib_4", geometry_type |-> "ellipsoid", color |-> "#D3D3D3", system |-> "SKELETAL"],
    [fn |-> "create_skeletal_system", name |-> "rib_5", geometry_type |-> "ellipsoid", color |-> "#D3D3D3", system |-> "SKELETAL"],
    [fn |-> "create_vascular_system", name |-> "aorta", geometry_type |-> "cylinder", color |-> "#C0392B", system |-> "CARDIOVASCULAR"],
    [fn |-> "create_vascular_system", name |-> "vena_cava_superior", geometry_type |-> "cylinder", color |-> "#8B0000", system |-> "CARDIOVASCULAR"],
    [fn |-> "create_nervous_system", name |-> "spinal_cord", geometry_type |-> "cylinder", color |-> "#9B59B6", system |-> "NERVOUS"],
    [fn |-> "create_nervous_system", name |-> "nerve_branch_left", geometry_type |-> "cylinder", color |-> "#8E44AD", system |-> "NERVOUS"],
    [fn |-> "create_nervous_system", name |-> "nerve_branch_right", geometry_type |-> "cylinder", color |-> "#8E44AD", system |-> "NERVOUS"] >>

\* create_material: 'Subsurface Weight', else 'Subsurface', both guarded.
Generate_create_material(name, color_hex, inputs) ==
    [ name |-> "Mat_" \o name, color |-> color_hex,
      subsurface |-> IF "Subsurface Weight" \in inputs THEN "Subsurface Weight"
                     ELSE IF "Subsurface" \in inputs THEN "Subsurface"
                     ELSE NoVal,
      linked |-> TRUE ]

\* Polygons of the primitive create_organ adds for a geometry type.
Generate_primitive_polys(geometry_type) ==
    IF geometry_type = "cylinder" THEN 32 + 2 ELSE UvSpherePolys(32, 16)

\* The geometry types create_organ has a branch for.
GenerateKnownTypes == {"sphere", "ellipsoid", "cylinder", "capsule"}

\* The scene after the primitive-creation branch of create_organ.
Generate_add_primitive(objs, geometry_type, id) ==
    IF geometry_type \in GenerateKnownTypes
    THEN Append(objs, NewObj(id, "Primitive", "created",
                             Generate_primitive_polys(geometry_type), 0))
    ELSE objs

\* create_organ from "obj = bpy.context.active_object" on: the object that
\* is active is renamed, gets the material and the custom properties.
Generate_dress(objs, act, name, color, system, inputs) ==
    [i \in 1..Len(objs) |->
        IF objs[i].id # act THEN objs[i]
        ELSE [objs[i] EXCEPT
                !.name = UniqueName(SelectSeq(objs, LAMBDA o : o.id # act), name),
                !.materials = Append(@, Generate_create_material(name, color, inputs)),
                !.props = [@ EXCEPT !["system"] = system,
                                    !["clickable"] = PyTrue]]]

\* main: clear_scene.
Generate_clear_scene ==
    /\ script = "generate" /\ pc = "main" /\ status = "running"
    /\ objects' = << >>
    /\ active' = 0
    /\ idx' = 1
    /\ log' = Append(log, Ev("clear_scene", "clear_scene"))
    /\ pc' = "generate_loop"
    /\ UNCHANGED << script, status, argv, zpath, refExists, refNames,
                    reference_objects, dirExists, files, objsPerFile,
                    polysPerObj, objMtl, bsdfInputs, nextId, imported_count,
                    skipped_count, created_objects, variants, written, export_calls >>

\* create_organ(name, geometry_type, size, position, color, system) with
\* the arguments of c.
Generate_create_organ_with(c) ==
    /\ script = "generate" /\ pc = "generate_loop" /\ status = "running"
    /\ LET known == c.geometry_type \in GenerateKnownTypes
           added == Generate_add_primitive(objects, c.geometry_type, nextId)
           act == IF known THEN nextId ELSE active
       IN  IF act = 0
           THEN \* obj is None: AttributeError on obj.name
                /\ status' = "exception"
                /\ pc' = "done"
                /\ log' = Append(log, Ev("exception", "AttributeError"))
                /\ UNCHANGED << objects, active, nextId >>
           ELSE /\ objects' = Generate_dress(added, act, c.name, c.color,
                                             c.system, bsdfInputs)
                /\ active' = act
                /\ nextId' = IF known THEN nextId + 1 ELSE nextId
                /\ log' = log \o (IF known THEN << Ev("create", c.name) >> ELSE << >>)
                          \o << Ev("rename", c.name), Ev("material", c.name),
                                Ev("tag", c.name) >>
                /\ UNCHANGED << status, pc >>
    /\ idx' = idx + 1
    /\ UNCHANGED << script, argv, zpath, refExists, refNames,
                    reference_objects, dirExists, files, objsPerFile,
                    polysPerObj, objMtl, bsdfInputs, imported_count,
                    skipped_count, created_objects, variants, written, export_calls >>

\* One create_organ call of the create_* functions main runs.
Generate_create_organ ==
    /\ idx <= Len(GenerateCalls)
    /\ Generate_create_organ_with(GenerateCalls[idx])

\* The exporter arguments of main: no Draco argument is passed.
Generate_export_kw == ExportKw("GLB", PyFalse, PyFalse, NoVal)

\* main: the export at its end.
Generate_export ==
    /\ script = "generate" /\ pc = "generate_loop" /\ status = "running"
    /\ idx > Len(GenerateCalls)
    /\ written' = Append(written, OUTPUT_FILE_generate)
    /\ export_calls' = Append(export_calls,
                            ExportCall(OUTPUT_FILE_generate, Generate_export_kw, objects))
    /\ log' = log \o << Ev("mkdir", "OUTPUT_DIR"), Ev("export", OUTPUT_FILE_generate) >>
    /\ pc' = "finish"
    /\ UNCHANGED << script, status, argv, zpath, refExists, refNames,
                    reference_objects, dirExists, files, objsPerFile,
                    polysPerObj, objMtl, bsdfInputs, objects, active, nextId,
                    idx, imported_count, skipped_count, created_objects,
                    variants >>

-----------------------------------------------------------------------------
(* create_morph_targets.py                                                 *)

OUTPUT_FILE_morph == "human_body_morphable.glb"

\* bmi in tenths, the scale factors in percent.
BMI_PRESETS == <<
    [name |-> "Underweight", bmi |-> 170, abdomen_scale |-> 85,  limbs_scale |-> 90,  face_scale |-> 95],
    [name |-> "Normal",      bmi |-> 220, abdomen_scale |-> 100, limbs_scale |-> 100, face_scale |-> 100],
    [name |-> "Overweight",  bmi |-> 275, abdomen_scale |-> 120, limbs_scale |-> 108, face_scale |-> 105],
    [name |-> "Obese1",      bmi |-> 325, abdomen_scale |-> 145, limbs_scale |-> 115, face_scale |-> 112],
    [name |-> "Obese2",      bmi |-> 375, abdomen_scale |-> 170, limbs_scale |-> 122, face_scale |-> 118],
    [name |-> "Obese3",      bmi |-> 450, abdomen_scale |-> 200, limbs_scale |-> 130, face_scale |-> 125] >>

PresetNames == {BMI_PRESETS[i].name : i \in 1..Len(BMI_PRESETS)}

\* import_base_model: the vertices of the size-2 cube after the scale
\* (0.3, 0.2, 0.85) is applied, in ten-thousandths of a scene unit.
BaseVerts == << <<-3000, -2000, -8500>>, <<-3000, -2000, 8500>>,
                <<-3000, 2000, -8500>>,  <<-3000, 2000, 8500>>,
                <<3000, -2000, -8500>>,  <<3000, -2000, 8500>>,
                <<3000, 2000, -8500>>,   <<3000, 2000, 8500>> >>

Abs(x) == IF x < 0 THEN -x ELSE x

\* create_bmi_variant: the region-specific scaling of one vertex.
Morph_scale_vertex(v, p) ==
    IF 3000 < v[3] /\ v[3] < 7000 /\ v[2] > 0
    THEN << (v[1] * (100 + p.abdomen_scale)) \div 200,
            (v[2] * p.abdomen_scale) \div 100, v[3] >>
    ELSE IF v[3] < 5000
    THEN IF Abs(v[1]) > 1500
         THEN << (v[1] * p.limbs_scale) \div 100,
                 (v[2] * (100 + p.limbs_scale)) \div 200, v[3] >>
         ELSE v
    ELSE IF v[3] > 10000
    THEN << (v[1] * p.face_scale) \div 100, (v[2] * p.face_scale) \div 100,
            (v[3] * p.face_scale) \div 100 >>
    ELSE v

\* create_bmi_variant: the duplicate of the base object, renamed and scaled.
Morph_create_bmi_variant(base, id, p) ==
    [base EXCEPT !.id = id, !.name = "Body_" \o p.name, !.origin = "variant",
                 !.verts = [i \in 1..Len(base.verts) |->
                              Morph_scale_vertex(base.verts[i], p)]]

\* shape_key_add(name, from_mix=False) followed by the copy loop: the key
\* starts as the base positions and vertex i takes the variant's position.
Morph_shape_key(base_verts, name, variant_verts) ==
    [ name |-> name,
      data |-> [i \in 1..Len(base_verts) |->
                  IF i <= Len(variant_verts) THEN variant_verts[i]
                  ELSE base_verts[i]] ]

\* The loop with "break" in place of "continue" at a vertex-count mismatch.
RECURSIVE Morph_shape_keys_loop_break(_, _, _)
Morph_shape_keys_loop_break(base_verts, vs, keys) ==
    IF vs = << >> THEN keys
    ELSE IF Len(base_verts) # Len(Head(vs).verts) THEN keys
    ELSE Morph_shape_keys_loop_break(base_verts, Tail(vs),
             Append(keys, Morph_shape_key(base_verts, Head(vs).name,
                                          Head(vs).verts)))

\* The loop of create_shape_keys over the variants, in dict order; vs is a
\* sequence of [name, verts].
RECURSIVE Morph_shape_keys_loop(_, _, _)
Morph_shape_keys_loop(base_verts, vs, keys) ==
    IF vs = << >> THEN keys
    ELSE IF Len(base_verts) # Len(Head(vs).verts)
    THEN Morph_shape_keys_loop(base_verts, Tail(vs), keys)
    ELSE Morph_shape_keys_loop(base_verts, Tail(vs),
             Append(keys, Morph_shape_key(base_verts, Head(vs).name,
                                          Head(vs).verts)))

\* create_shape_keys: the shape keys the base object ends with.
Morph_create_shape_keys(base_verts, vs) ==
    Morph_shape_keys_loop(base_verts, vs,
                          << [name |-> "Basis", data |-> base_verts] >>)

\* The messages of create_shape_keys, one per variant.
Morph_shape_keys_log(base_verts, vs) ==
    [i \in 1..Len(vs) |->
        IF Len(base_verts) # Len(vs[i].verts)
        THEN Ev("print_error", vs[i].name)
        ELSE Ev("shape_key", vs[i].name)]

ObjById(objs, id) == objs[CHOOSE i \in 1..Len(objs) : objs[i].id = id]

\* The organs add_organ_meshes adds.
MorphOrgans == <<
    [name |-> "heart",            color |-> "#E74C3C"],
    [name |-> "liver_right_lobe", color |-> "#D68910"],
    [name |-> "stomach_body",     color |-> "#E67E22"],
    [name |-> "lung_right",       color |-> "#3498DB"],
    [name |-> "lung_left",        color |-> "#3498DB"],
    [name |-> "kidney_right",     color |-> "#16A085"],
    [name |-> "kidney_left",      color |-> "#16A085"] >>

\* add_organ_meshes: one organ sphere with its metadata and material.
Morph_organ(objs, id, organ) ==
    [NewObj(id, UniqueName(objs, organ.name), "organ", UvSpherePolys(32, 16), 0)
       EXCEPT !.props = [@ EXCEPT !["isOrgan"] = PyTrue,
                                  !["organName"] = organ.name,
                                  !["displayColor"] = organ.color],
              !.materials = << [name |-> "Mat_" \o organ.name,
                                color |-> organ.color, subsurface |-> NoVal,
                                linked |-> TRUE] >>]

\* main: the output directory is made, then clear_scene.
Morph_clear_scene ==
    /\ script = "morph" /\ pc = "main" /\ status = "running"
    /\ objects' = << >>
    /\ active' = 0
    /\ log' = log \o << Ev("mkdir", "OUTPUT_DIR"), Ev("clear_scene", "clear_scene") >>
    /\ pc' = "import_base_model"
    /\ UNCHANGED << script, status, argv, zpath, refExists, refNames,
                    reference_objects, dirExists, files, objsPerFile,
                    polysPerObj, objMtl, bsdfInputs, nextId, idx,
                    imported_count, skipped_count, created_objects, variants,
                    written, export_calls >>

\* import_base_model and create_vertex_groups.
Morph_import_base_model ==
    /\ script = "morph" /\ pc = "import_base_model" /\ status = "running"
    /\ objects' = Append(objects,
                         [NewObj(nextId, "BodyReference_BMI22", "base", 6, 0)
                            EXCEPT !.verts = BaseVerts])
    /\ active' = nextId
    /\ nextId' = nextId + 1
    /\ created_objects' = << nextId >>
    /\ variants' = << >>
    /\ idx' = 1
    /\ log' = log \o << Ev("create", "BodyReference_BMI22"),
                        Ev("vertex_groups", "BodyReference_BMI22") >>
    /\ pc' = "variants_loop"
    /\ UNCHANGED << script, status, argv, zpath, refExists, refNames,
                    reference_objects, dirExists, files, objsPerFile,
                    polysPerObj, objMtl, bsdfInputs, imported_count,
                    skipped_count, written, export_calls >>

\* The loop with the skip of the base preset lost.
Morph_skip_preset_none(preset_name) == FALSE

\* main: "if preset_name == 'Normal': continue".
Morph_skip_preset(preset_name) == preset_name = "Normal"

\* main: one iteration of the loop over BMI_PRESETS.
Morph_variant_step ==
    /\ script = "morph" /\ pc = "variants_loop" /\ status = "running"
    /\ idx <= Len(BMI_PRESETS)
    /\ LET p == BMI_PRESETS[idx]
           base == ObjById(objects, created_objects[1])
       IN  IF Morph_skip_preset(p.name)
           THEN UNCHANGED << objects, active, nextId, variants, log >>
           ELSE /\ objects' = Append(objects, Morph_create_bmi_variant(base, nextId, p))
                /\ active' = nextId
                /\ nextId' = nextId + 1
                /\ variants' = Append(variants, [name |-> p.name, id |-> nextId])
                /\ log' = log \o << Ev("create", "Body_" \o p.name),
                                    Ev("edit_mesh", "Body_" \o p.name) >>
    /\ idx' = idx + 1
    /\ UNCHANGED << script, pc, status, argv, zpath, refExists, refNames,
                    reference_objects, dirExists, files, objsPerFile,
                    polysPerObj, objMtl, bsdfInputs, imported_count,
                    skipped_count, created_objects, written, export_calls >>

Morph_variants_done ==
    /\ script = "morph" /\ pc = "variants_loop" /\ status = "running"
    /\ idx > Len(BMI_PRESETS)
    /\ pc' = "create_shape_keys"
    /\ UNCHANGED << script, status, argv, zpath, refExists, refNames,
                    reference_objects, dirExists, files, objsPerFile,
                    polysPerObj, objMtl, bsdfInputs, objects, active, nextId,
                    idx, imported_count, skipped_count, created_objects,
                    variants, written, export_calls, log >>

\* create_shape_keys(base_obj, variants).
Morph_shape_keys_call ==
    /\ pc = "create_shape_keys" /\ status = "running"
    /\ LET base_id == created_objects[1]
           base == ObjById(objects, base_id)
           vs == [i \in 1..Len(variants) |->
                    [name |-> variants[i].name,
                     verts |-> ObjById(objects, variants[i].id).verts]]
       IN  /\ objects' = [i \in 1..Len(objects) |->
                            IF objects[i].id = base_id
                            THEN [objects[i] EXCEPT !.shape_keys =
                                      Morph_create_shape_keys(base.verts, vs)]
                            ELSE objects[i]]
           /\ active' = base_id
           /\ log' = log \o << Ev("shape_key", "Basis") >>
                         \o Morph_shape_keys_log(base.verts, vs)
    /\ pc' = "delete_variants"
    /\ UNCHANGED << script, status, argv, zpath, refExists, refNames,
                    reference_objects, dirExists, files, objsPerFile,
                    polysPerObj, objMtl, bsdfInputs, nextId, idx,
                    imported_count, skipped_count, created_objects, variants,
                    written, export_calls >>

\* main: the variant objects are removed.
Morph_delete_variants ==
    /\ script = "morph" /\ pc = "delete_variants" /\ status = "running"
    /\ LET gone == {variants[i].id : i \in 1..Len(variants)}
       IN  objects' = SelectSeq(objects, LAMBDA o : o.id \notin gone)
    /\ log' = log \o [i \in 1..Len(variants) |-> Ev("remove", variants[i].name)]
    /\ pc' = "add_organ_meshes"
    /\ UNCHANGED << script, status, argv, zpath, refExists, refNames,
                    reference_objects, dirExists, files, objsPerFile,
                    polysPerObj, objMtl, bsdfInputs, active, nextId, idx,
                    imported_count, skipped_count, created_objects, variants,
                    written, export_calls >>

\* add_organ_meshes.
Morph_add_organ_meshes ==
    /\ script = "morph" /\ pc = "add_organ_meshes" /\ status = "running"
    /\ objects' = objects \o [k \in 1..Len(MorphOrgans) |->
                                Morph_organ(objects, nextId + k - 1, MorphOrgans[k])]
    /\ nextId' = nextId + Len(MorphOrgans)
    /\ active' = nextId + Len(MorphOrgans) - 1
    /\ log' = log \o [k \in 1..(3 * Len(MorphOrgans)) |->
                        Ev(<< "create", "tag", "material" >>[((k - 1) % 3) + 1],
                           MorphOrgans[((k - 1) \div 3) + 1].name)]
    /\ pc' = "export_gltf"
    /\ UNCHANGED << script, status, argv, zpath, refExists, refNames,
                    reference_objects, dirExists, files, objsPerFile,
                    polysPerObj, objMtl, bsdfInputs, idx, imported_count,
                    skipped_count, created_objects, variants, written, export_calls >>

\* The exporter arguments of export_gltf of create_morph_targets.
Morph_export_kw == ExportKw("GLB", PyFalse, PyFalse, PyTrue)

\* export_gltf(base_obj, output_path).
Morph_export_gltf ==
    /\ script = "morph" /\ pc = "export_gltf" /\ status = "running"
    /\ written' = Append(written, OUTPUT_FILE_morph)
    /\ export_calls' = Append(export_calls,
                            ExportCall(OUTPUT_FILE_morph, Morph_export_kw, objects))
    /\ active' = created_objects[1]
    /\ log' = log \o << Ev("select", "base+organs"), Ev("export", OUTPUT_FILE_morph) >>
    /\ pc' = "finish"
    /\ UNCHANGED << script, status, argv, zpath, refExists, refNames,
                    reference_objects, dirExists, files, objsPerFile,
                    polysPerObj, objMtl, bsdfInputs, objects, nextId, idx,
                    imported_count, skipped_count, created_objects, variants >>

-----------------------------------------------------------------------------
(* The runs of the four scripts.                                           *)

\* Sequences over S of length at most n.
SeqsUpTo(S, n) == UNION {[1..k -> S] : k \in 0..n}

\* Sequences over S without repetition, of length at most n.
InjSeqsUpTo(S, n) ==
    {q \in SeqsUpTo(S, n) : \A i, j \in 1..Len(q) : i # j => q[i] # q[j]}

\* The scene the host starts with.
DefaultScene == << NewObj(1, "Cube", "default", 6, 1) >>

InitCommon ==
    /\ pc = "main"
    /\ status = "running"
    /\ zpath = None
    /\ reference_objects = << >>
    /\ objects = DefaultScene
    /\ active = 1
    /\ nextId = 2
    /\ idx = 1
    /\ imported_count = 0
    /\ skipped_count = 0
    /\ created_objects = << >>
    /\ variants = << >>
    /\ written = << >>
    /\ export_calls = << >>
    /\ log = << >>

NoBuildInput == argv = << >> /\ refExists = FALSE /\ refNames = << >>

NoImportInput ==
    /\ dirExists = FALSE /\ files = {} /\ objsPerFile = 0
    /\ polysPerObj = 0 /\ objMtl = 0

InitImport ==
    /\ script = "import"
    /\ NoBuildInput
    /\ bsdfInputs \in SUBSET SubsurfaceInputs
    /\ \/ /\ dirExists = FALSE /\ files = {} /\ objsPerFile = 0
          /\ polysPerObj = 0 /\ objMtl = 0
       \/ /\ dirExists = TRUE
          /\ files \in SUBSET FilePool
          /\ objsPerFile \in 0..MaxObjsPerFile
          /\ polysPerObj \in PolyChoices
          /\ objMtl \in {0, 1}

InitBuild ==
    /\ script = "build"
    /\ NoImportInput
    /\ bsdfInputs \in SUBSET SubsurfaceInputs
    /\ argv \in SeqsUpTo(ArgTokens, MaxArgv)
    /\ refExists \in BOOLEAN
    /\ refNames \in InjSeqsUpTo(RefNamePool, MaxRefs)
    /\ (~refExists => refNames = << >>)
    /\ (Build_parse_reference(LaunchPrefix \o argv) # "ref.blend" => ~refExists)

InitGenerate ==
    /\ script = "generate"
    /\ NoBuildInput /\ NoImportInput
    /\ bsdfInputs \in SUBSET SubsurfaceInputs

InitMorph ==
    /\ script = "morph"
    /\ NoBuildInput /\ NoImportInput
    /\ bsdfInputs \in SUBSET SubsurfaceInputs

Init == InitCommon /\ (InitImport \/ InitBuild \/ InitGenerate \/ InitMorph)

Next ==
    \/ Import_main_check_dir
    \/ Import_import_anatomy_models_begin
    \/ Import_import_one
    \/ Import_main_check_count
    \/ Import_main_optimize_high
    \/ Import_main_export_high
    \/ Import_main_optimize_low
    \/ Import_main_export_low
    \/ Build_main_parse
    \/ Build_clear_scene
    \/ Build_load_reference
    \/ Build_create_one
    \/ Build_remove_references
    \/ Build_export_model
    \/ Generate_clear_scene
    \/ Generate_create_organ
    \/ Generate_export
    \/ Morph_clear_scene
    \/ Morph_import_base_model
    \/ Morph_variant_step
    \/ Morph_variants_done
    \/ Morph_shape_keys_call
    \/ Morph_delete_variants
    \/ Morph_add_organ_meshes
    \/ Morph_export_gltf
    \/ Main_finish

Spec == Init /\ [][Next]_vars

-----------------------------------------------------------------------------
(* create_shape_keys on arbitrary variants: the base object and the        *)
(* variant objects are drawn from bounded sets and the function is applied.*)

\* Vertex i of a mesh of n vertices displaced by c.
HarnessVerts(n, c) == [i \in 1..n |-> << i, c, 0 >>]

\* The names of BMI_PRESETS that lie in S, in table order.
PresetsIn(S) ==
    LET sel == SelectSeq(BMI_PRESETS, LAMBDA p : p.name \in S)
    IN  [i \in 1..Len(sel) |-> sel[i].name]

InitShapeKeys ==
    /\ script = "morph"
    /\ pc = "create_shape_keys"
    /\ status = "running"
    /\ NoBuildInput /\ NoImportInput
    /\ zpath = None /\ reference_objects = << >>
    /\ bsdfInputs = {}
    /\ idx = 1 /\ imported_count = 0 /\ skipped_count = 0
    /\ written = << >> /\ export_calls = << >> /\ log = << >>
    /\ created_objects = << 1 >>
    /\ active = 1
    /\ \E nb \in 1..MaxVerts :
       \E S \in SUBSET PresetNames :
          /\ Cardinality(S) <= MaxVariants
          /\ LET names == PresetsIn(S)
             IN  \E shape \in [1..Len(names) -> (1..MaxVerts) \X {1, 2}] :
                   /\ variants = [i \in 1..Len(names) |->
                                    [name |-> names[i], id |-> i + 1]]
                   /\ objects =
                        << [NewObj(1, "BodyReference_BMI22", "base", 6, 0)
                              EXCEPT !.verts = HarnessVerts(nb, 0)] >>
                        \o [i \in 1..Len(names) |->
                              [NewObj(i + 1, "Body_" \o names[i], "variant", 6, 0)
                                 EXCEPT !.verts = HarnessVerts(shape[i][1],
                                                               shape[i][2])]]
                   /\ nextId = Len(names) + 2

NextShapeKeys == Morph_shape_keys_call

SpecShapeKeys == InitShapeKeys /\ [][NextShapeKeys]_vars

-----------------------------------------------------------------------------
(* optimize_mesh on an arbitrary object and target: the object's type and  *)
(* polygon count and the target are drawn from bounded sets.               *)

ObjectTypes == {"MESH", "CURVE", "EMPTY"}

OptimizeTargets == (-1)..MaxPolys

InitOptimizeMesh ==
    /\ script = "build"
    /\ pc = "optimize_mesh"
    /\ status = "running"
    /\ NoBuildInput /\ NoImportInput
    /\ zpath = None /\ reference_objects = << >>
    /\ bsdfInputs = {}
    /\ idx = 1 /\ imported_count = 0 /\ skipped_count = 0
    /\ written = << >> /\ export_calls = << >> /\ log = << >>
    /\ created_objects = << >> /\ variants = << >>
    /\ active = 0 /\ nextId = 2
    /\ \E ty \in ObjectTypes, n \in 0..MaxPolys :
          objects = << [NewObj(1, "organ", "created", n, 0) EXCEPT !.type = ty] >>

\* One call optimize_mesh(obj, target_polygons) on the object of the scene.
Build_optimize_mesh_call(target_polygons) ==
    /\ pc = "optimize_mesh" /\ status = "running"
    /\ IF Build_optimize_mesh_raises(objects[1], target_polygons)
       THEN /\ status' = "exception"
            /\ log' = Append(log, Ev("exception", "ZeroDivisionError"))
            /\ UNCHANGED << objects, active >>
       ELSE /\ objects' = << Build_optimize_mesh(objects[1], target_polygons) >>
            /\ active' = IF Len(objects'[1].mods) > Len(objects[1].mods)
                         THEN objects[1].id ELSE active
            /\ log' = log \o [k \in 1..(Len(objects'[1].mods)
                                          - Len(objects[1].mods)) |->
                                 Ev("modifier", objects[1].name)]
            /\ UNCHANGED status
    /\ pc' = "done"
    /\ UNCHANGED << script, argv, zpath, refExists, refNames,
                    reference_objects, dirExists, files, objsPerFile,
                    polysPerObj, objMtl, bsdfInputs, nextId, idx,
                    imported_count, skipped_count, created_objects, variants,
                    written, export_calls >>

NextOptimizeMesh == \E t \in OptimizeTargets : Build_optimize_mesh_call(t)

SpecOptimizeMesh == InitOptimizeMesh /\ [][NextOptimizeMesh]_vars

-----------------------------------------------------------------------------
(* create_organ on arbitrary arguments: up to MaxCalls calls in a row, each *)
(* with a geometry_type and a name drawn from bounded sets, on a scene     *)
(* that is empty or holds the host's default object.                       *)

\* The geometry types create_organ handles and one it does not.
GeometryTypes == GenerateKnownTypes \cup {"cube"}

OrganNames == {"Liver", "Spleen"}

CreateOrganArgs ==
    { [fn |-> "create_organ", name |-> n, geometry_type |-> g,
       color |-> "#8B4513", system |-> "DIGESTIVE"] :
      n \in OrganNames, g \in GeometryTypes }

InitCreateOrgan ==
    /\ script = "generate"
    /\ pc = "generate_loop"
    /\ status = "running"
    /\ NoBuildInput /\ NoImportInput
    /\ zpath = None /\ reference_objects = << >>
    /\ bsdfInputs = {}
    /\ idx = 1 /\ imported_count = 0 /\ skipped_count = 0
    /\ written = << >> /\ export_calls = << >> /\ log = << >>
    /\ created_objects = << >> /\ variants = << >>
    /\ nextId = 2
    /\ \/ objects = << >> /\ active = 0
       \/ objects = DefaultScene /\ active \in {0, 1}

\* One call of create_organ with any of the arguments.
Generate_create_organ_any ==
    /\ idx <= MaxCalls
    /\ \E c \in CreateOrganArgs : Generate_create_organ_with(c)

NextCreateOrgan == Generate_create_organ_any

SpecCreateOrgan == InitCreateOrgan /\ [][NextCreateOrgan]_vars

-----------------------------------------------------------------------------
(* Properties.                                                             *)

LogOps == {log[i].op : i \in 1..Len(log)}

Logged(op, arg) == \E i \in 1..Len(log) : log[i] = Ev(op, arg)

\* The operations on the scene that main of import_bodyparts3d runs after
\* its directory check.
ImportSceneOps == {"call", "clear_scene", "collections", "import_obj",
                   "rename", "edit_mesh", "material", "tag", "modifier",
                   "mkdir", "export"}

\* C1: in import_bodyparts3d.main, when MODELS_INPUT_DIR does not exist an
\* error is printed and the run exits with status 1 before any scene
\* operation: clear_scene, import_anatomy_models, optimize_models and
\* export_gltf are never invoked, the scene is untouched and no GLB file is
\* written.
C1_MissingInputDirExits ==
    (script = "import" /\ ~dirExists) =>
        /\ LogOps \cap ImportSceneOps = {}
        /\ objects = DefaultScene
        /\ written = << >>
        /\ pc # "main" =>
              /\ pc = "done" /\ status = "exit1"
              /\ "print_error" \in LogOps
              /\ log[Len(log)] = Ev("sys.exit", "1")

C1_Witness ==
    script = "import" /\ ~dirExists /\ pc = "done" /\ status = "exit1"

\* C2: in import_bodyparts3d.main, when import_anatomy_models returns 0 the
\* run exits with status 1 and neither optimize_models nor export_gltf is
\* invoked, so no GLB file is written.
C2_NoModelsExits ==
    (script = "import" /\ idx > Len(ANATOMY_MODELS) /\ imported_count = 0
       /\ status # "exception") =>
        /\ ~Logged("call", "optimize_models")
        /\ ~Logged("call", "export_gltf")
        /\ "export" \notin LogOps /\ "modifier" \notin LogOps
        /\ written = << >>
        /\ pc \in {"import_loop", "done"}
        /\ pc = "done" => (status = "exit1" /\ log[Len(log)] = Ev("sys.exit", "1"))

C2_Witness ==
    /\ script = "import" /\ dirExists /\ files # {}
    /\ idx > Len(ANATOMY_MODELS) /\ imported_count = 0
    /\ skipped_count = Len(ANATOMY_MODELS)
    /\ pc = "done" /\ status = "exit1"
    /\ Logged("call", "import_anatomy_models")

\* C3: in every script that builds materials, when the host's Principled
\* BSDF node lacks the optional subsurface inputs, the absence is swallowed:
\* no exception leaves the material builder, and every object the script
\* has created or imported carries a material with its base colour that is
\* linked to the output node.
C3_MissingSubsurfaceSwallowed ==
    (script \in {"build", "generate", "import"} /\ bsdfInputs = {}) =>
        /\ status # "exception"
        /\ \A i \in 1..Len(objects) :
              objects[i].origin \in {"created", "imported"} =>
                 /\ Len(objects[i].materials) >= 1
                 /\ objects[i].materials[Len(objects[i].materials)].linked
                 /\ objects[i].materials[Len(objects[i].materials)].color # NoVal

\* The shape keys of the base object that carry the given name.
KeysNamed(base, name) ==
    {k \in 1..Len(base.shape_keys) : base.shape_keys[k].name = name}

\* C4: in create_shape_keys, for every variant whose vertex count differs
\* from the base object's an error is logged and no shape key is added,
\* while every other variant, before and after it in iteration order, gets
\* exactly one shape key named after its preset whose per-vertex positions
\* equal the variant's vertex positions.
C4_MismatchSkipsOnlyThatVariant ==
    pc = "delete_variants" =>
        LET base == ObjById(objects, created_objects[1])
        IN  \A i \in 1..Len(variants) :
               LET v == ObjById(objects, variants[i].id)
                   named == KeysNamed(base, variants[i].name)
               IN  IF Len(v.verts) # Len(base.verts)
                   THEN /\ named = {}
                        /\ Logged("print_error", variants[i].name)
                   ELSE /\ Cardinality(named) = 1
                        /\ \A k \in named : base.shape_keys[k].data = v.verts
                        /\ ~Logged("print_error", variants[i].name)

C4_Witness ==
    /\ pc = "delete_variants" /\ Len(variants) = 3
    /\ LET base == ObjById(objects, created_objects[1])
           n(i) == Len(ObjById(objects, variants[i].id).verts)
       IN  /\ n(1) = Len(base.verts) /\ n(2) # Len(base.verts)
           /\ n(3) = Len(base.verts)
           /\ Len(base.shape_keys) = 3
           /\ ObjById(objects, variants[3].id).verts # base.verts


\* C5: every object that import_bodyparts3d imports and exports carries the
\* custom properties the viewer reads: system (the entry's organ-system
\* tag), clickable (True) and fma_code (the entry's FMA code).
C5_ImportedObjectsCarryViewerProps ==
    (script = "import" /\ written # << >>) =>
        \A i \in 1..Len(objects) :
           objects[i].origin = "imported" =>
              \E k \in 1..Len(ANATOMY_MODELS) :
                 /\ ANATOMY_MODELS[k].name = objects[i].name
                 /\ objects[i].props["system"] = ANATOMY_MODELS[k].system
                 /\ objects[i].props["clickable"] = PyTrue
                 /\ objects[i].props["fma_code"] = ANATOMY_MODELS[k].fma

\* The objects of the scene that the running script created.
CreatedInScene == SelectSeq(objects, LAMBDA o : o.origin = "created")

\* C6: in build_custom_anatomy and generate_anatomy_procedural, at the
\* moment of export every created anatomical object has exactly one material
\* and the custom properties system (the system tag of its descriptor or
\* call) and clickable = True.
C6_CreatedObjectsDressedAtExport ==
    (script \in {"build", "generate"} /\ written # << >>) =>
        LET table == IF script = "build"
                     THEN [k \in 1..Len(ANATOMY_STRUCTURES) |->
                             ANATOMY_STRUCTURES[k].system]
                     ELSE [k \in 1..Len(GenerateCalls) |->
                             GenerateCalls[k].system]
        IN  /\ Len(CreatedInScene) = Len(table)
            /\ \A k \in 1..Len(CreatedInScene) :
                  /\ Len(CreatedInScene[k].materials) = 1
                  /\ CreatedInScene[k].props["system"] = table[k]
                  /\ CreatedInScene[k].props["clickable"] = PyTrue

C6_Witness ==
    /\ script = "build" /\ written = << OUTPUT_FILE_build >>
    /\ Len(CreatedInScene) = 17
    /\ \E k \in 1..Len(CreatedInScene) : "Decimate" \in Range(CreatedInScene[k].mods)
    /\ \E k \in 1..Len(CreatedInScene) : CreatedInScene[k].mods = << >>

\* The shape-key names of the base object of create_morph_targets.
BaseKeyNames ==
    LET base == ObjById(objects, created_objects[1])
    IN  [k \in 1..Len(base.shape_keys) |-> base.shape_keys[k].name]

MorphKeysMade ==
    /\ script = "morph" /\ created_objects # << >>
    /\ pc \in {"delete_variants", "add_organ_meshes", "export_gltf", "finish", "done"}

\* C7 (as claimed): after create_shape_keys in create_morph_targets.main the
\* base object has a shape key named for each of the six presets of
\* BMI_PRESETS.
C7_SixPresetKeys ==
    MorphKeysMade => \A n \in PresetNames : n \in Range(BaseKeyNames)

\* C7 (amended): after create_shape_keys in create_morph_targets.main the
\* base object has the shape key Basis followed by one shape key for each of
\* the five presets other than Normal, in table order, and none named
\* Normal: the Normal preset is the base mesh itself.
C7_BasisAndFivePresetKeys ==
    MorphKeysMade =>
        /\ BaseKeyNames = << "Basis", "Underweight", "Overweight", "Obese1",
                             "Obese2", "Obese3" >>
        /\ Range(BaseKeyNames) = {"Basis"} \cup (PresetNames \ {"Normal"})

C7_Witness ==
    /\ MorphKeysMade /\ written = << OUTPUT_FILE_morph >>
    /\ Len(BaseKeyNames) = 6

\* C8: a successful run of each script writes exactly the GLB file its
\* usage docstring names as output.
C8_DocumentedOutputWritten ==
    status = "exit0" =>
        written = << CASE script = "build" -> "human_anatomy_custom.glb"
                       [] script = "generate" -> "human_anatomy.glb"
                       [] script = "import" -> "human_anatomy.glb"
                       [] script = "morph" -> "human_body_morphable.glb" >>

\* Positions in the log of the export calls before position i.
ExportsBefore(i) == {j \in 1..(i - 1) : log[j].op = "export"}

ClearedBefore(i) == \E j \in 1..(i - 1) : log[j].op = "clear_scene"

Min(S) == CHOOSE x \in S : \A y \in S : x <= y

\* C10: in build_custom_anatomy.main the reference path is the token after
\* '--reference' if and only if '--' occurs in sys.argv, '--reference'
\* occurs after the first '--' and a token follows it; otherwise it is None;
\* in every case the build and the export run to completion, and without a
\* path no reference is loaded.
C10_ReferenceArgument ==
    (script = "build" /\ pc # "main") =>
        LET a == LaunchPrefix \o argv
            dashes == {i \in 1..Len(a) : a[i] = "--"}
            refs == IF dashes = {} THEN {}
                    ELSE {j \in (Min(dashes) + 1)..Len(a) : a[j] = "--reference"}
            given == refs # {} /\ Min(refs) < Len(a)
        IN  /\ given => zpath = a[Min(refs) + 1]
            /\ ~given => zpath = None
            /\ zpath = None => "load_reference" \notin LogOps
            /\ pc = "done" =>
                  /\ status = "exit0"
                  /\ written = << OUTPUT_FILE_build >>
                  /\ Len(created_objects) = Len(ANATOMY_STRUCTURES)

C10_Witness ==
    /\ script = "build" /\ pc = "done"
    /\ argv = << "--", "--reference", "ref.blend" >>
    /\ zpath = "ref.blend"
    /\ "load_reference" \in LogOps

\* C11: the final step of every script calls the exporter in GLB format with
\* cameras and lights excluded and with Draco mesh compression enabled
\* (export_draco_mesh_compression_enable=True).
C11_EveryExportEnablesDraco ==
    \A i \in 1..Len(export_calls) :
        /\ export_calls[i].kw.export_format = "GLB"
        /\ export_calls[i].kw.export_cameras = PyFalse
        /\ export_calls[i].kw.export_lights = PyFalse
        /\ export_calls[i].kw.export_draco_mesh_compression_enable = PyTrue

\* The object appended to created_objects for entry k of ANATOMY_STRUCTURES.
CreatedFor(k) == ObjById(objects, created_objects[k])

\* C12: a structure of type 'bean' with size (sx, sy, sz) gets a mesh whose
\* applied scale relative to the unit sphere is (sx, sy, 0.8*sz): the size is
\* applied once and only the depth is reduced.
C12_BeanScaleAppliedOnce ==
    script = "build" =>
        \A k \in 1..Len(created_objects) :
            ANATOMY_STRUCTURES[k].type = "bean" =>
                CreatedFor(k).scale =
                    << ANATOMY_STRUCTURES[k].size[1] * 1000,
                       ANATOMY_STRUCTURES[k].size[2] * 1000,
                       ANATOMY_STRUCTURES[k].size[3] * 800 >>

\* The organ of POLYGON_BUDGET a structure belongs to.
BudgetOrgan(name) ==
    CASE name \in {"lung_right", "lung_left"} -> "lungs"
      [] name \in {"kidney_right", "kidney_left"} -> "kidneys"
      [] name \in {"small_intestine", "large_intestine"} -> "intestines"
      [] OTHER -> name

\* C13: every created structure that belongs to an organ of POLYGON_BUDGET
\* is passed to optimize_mesh with that organ's budget, the lungs, kidneys
\* and intestines included, and so ends within the budget.
C13_BudgetedOrgansOptimized ==
    script = "build" =>
        \A k \in 1..Len(created_objects) :
            LET name == ANATOMY_STRUCTURES[k].name
            IN  BudgetOrgan(name) \in DOMAIN POLYGON_BUDGET =>
                    /\ Logged("optimize_mesh", name)
                    /\ CreatedFor(k).polys <= POLYGON_BUDGET[BudgetOrgan(name)]

\* What one call optimize_mesh(obj, t) has done to the object.
OptimizeMeshEffect(t) ==
    LET o == objects[1]
        o2 == objects'[1]
        decimated == o.type = "MESH" /\ o.polys > t
    IN  /\ ~decimated => o2 = o /\ log' = log /\ status' = "running"
        /\ (decimated /\ t >= 0) =>
              /\ o.polys # 0 /\ status' = "running"
              /\ o2.mods = Append(o.mods, "Decimate")
              /\ o2.decimate = Append(o.decimate, Ratio(t, o.polys))
              /\ [o2 EXCEPT !.mods = o.mods, !.decimate = o.decimate,
                            !.polys = o.polys] = o
              /\ log' = Append(log, Ev("modifier", o.name))
        /\ (decimated /\ t > 0) => 0 < t /\ t < o.polys

\* C14: optimize_mesh(obj, target_polygons) leaves obj unchanged when it is
\* not a mesh or has at most target_polygons polygons; otherwise it adds and
\* applies exactly one Decimate modifier of ratio target / current, which
\* for a positive target lies strictly between 0 and 1, the divisor being
\* non-zero.
C14_OptimizeMeshGuardAndRatio ==
    [][\A t \in OptimizeTargets :
          Build_optimize_mesh_call(t) => OptimizeMeshEffect(t)]_vars

\* A mesh above a positive target has been decimated once.
C14_Witness ==
    /\ pc = "done" /\ status = "running" /\ script = "build"
    /\ objects[1].mods = << "Decimate" >>
    /\ Len(objects[1].decimate) = 1
    /\ objects[1].decimate[1].num > 0
    /\ objects[1].decimate[1].num < objects[1].decimate[1].den
    /\ objects[1].polys <= objects[1].decimate[1].num

\* What one call optimize_models(target_detail) has done to the scene.
OptimizeModelsEffect(target_detail) ==
    LET target_total == TARGET_POLYGON_COUNT[target_detail]
        total_polygons == SumPolys(objects)
    IN  /\ total_polygons <= target_total => objects' = objects
        /\ total_polygons > target_total =>
              /\ Len(objects') = Len(objects)
              /\ \A i \in 1..Len(objects) :
                    LET o == objects[i]
                        o2 == objects'[i]
                    IN  IF o.type # "MESH" THEN o2 = o
                        ELSE /\ o2.mods = Append(o.mods, "Decimate")
                             /\ o2.decimate =
                                  Append(o.decimate,
                                         Ratio(target_total, total_polygons))
                             /\ o2.polys <= Decimated(o.polys, target_total,
                                                      total_polygons)
                             /\ [o2 EXCEPT !.mods = o.mods,
                                           !.decimate = o.decimate,
                                           !.polys = o.polys] = o
              /\ SumPolys(objects') <= target_total

\* C15: optimize_models(target_detail) modifies no mesh when the polygons of
\* all meshes sum to at most TARGET_POLYGON_COUNT[target_detail]; otherwise
\* it decimates every mesh exactly once with the one ratio
\* target_total / total_polygons, and the sum afterwards is within the target.
C15_OptimizeModelsUniformRatio ==
    [][/\ Import_main_optimize_high => OptimizeModelsEffect("high_detail")
       /\ Import_main_optimize_low => OptimizeModelsEffect("low_detail")]_vars

\* Several meshes above the high-detail target have been decimated with the
\* same ratio and now sum to at most the target.
C15_Witness ==
    /\ script = "import" /\ pc = "export_high"
    /\ Len(objects) >= 2
    /\ \E total \in {n * 600000 : n \in 2..10} :
          \A i \in 1..Len(objects) :
              objects[i].decimate
                  = << Ratio(TARGET_POLYGON_COUNT["high_detail"], total) >>
    /\ SumPolys(objects) <= TARGET_POLYGON_COUNT["high_detail"]

\* The optimisation passes and exports of import_bodyparts3d.main, in order.
ImportPasses ==
    SelectSeq(log, LAMBDA e : e.op \in {"target_detail", "export"})

ImportPassesExpected ==
    << Ev("target_detail", "high_detail"), Ev("export", "human_anatomy_high.glb"),
       Ev("target_detail", "low_detail"), Ev("export", "human_anatomy_low.glb") >>

\* The ratios of the Decimate modifiers applied against the given target.
RatiosAgainst(target_detail) ==
    UNION { { objects[i].decimate[j] :
                j \in { j \in 1..Len(objects[i].decimate) :
                          objects[i].decimate[j].num
                              = TARGET_POLYGON_COUNT[target_detail] } } :
            i \in 1..Len(objects) }

C17_DispatchTotal ==
    script = "build" =>
        /\ \A k \in 1..Len(ANATOMY_STRUCTURES) :
              Build_dispatch(ANATOMY_STRUCTURES[k].type) # None
        /\ "skip" \notin LogOps
        /\ pc = "build_loop" => Len(created_objects) = idx - 1
        /\ \A k \in 1..Len(created_objects) :
              /\ CreatedFor(k).origin = "created"
              /\ CreatedFor(k).materials[1].name
                    = "Mat_" \o ANATOMY_STRUCTURES[k].name
              /\ CreatedFor(k).location = ANATOMY_STRUCTURES[k].position
              /\ \A j \in 1..(k - 1) : created_objects[j] < created_objects[k]
        /\ pc \in {"export_model", "finish", "done"} =>
              /\ Len(created_objects) = Len(ANATOMY_STRUCTURES)
              /\ Len(created_objects) = 17
              /\ Len(CreatedInScene) = 17

\* The build loop has run through the whole table, the types of its last
\* branch included.
C17_Witness ==
    /\ script = "build" /\ pc = "export_model"
    /\ Len(created_objects) = 17
    /\ ANATOMY_STRUCTURES[17].type = "sphere"
    /\ CreatedFor(17).props["system"] = "URINARY"

\* What one call create_organ(c) is claimed to do: it returns a new object,
\* which alone is renamed, given a material and tagged.
CreateOrganFresh(c) ==
    /\ status' = "running"
    /\ Len(objects') = Len(objects) + 1
    /\ \A i \in 1..Len(objects) : objects'[i] = objects[i]
    /\ LET obj == objects'[Len(objects')]
       IN  /\ active' = obj.id
           /\ \A i \in 1..Len(objects) : objects[i].id # obj.id
           /\ obj.props["system"] = c.system
           /\ obj.props["clickable"] = PyTrue
           /\ Len(obj.materials) = 1

\* C18: for any geometry_type string, create_organ returns an object created
\* by that same call and renames, dresses and tags only that object, never
\* an object of an earlier call.
C18_CreateOrganTouchesOnlyNewObject ==
    [][\A c \in CreateOrganArgs :
          Generate_create_organ_with(c) => CreateOrganFresh(c)]_vars

\* C19: after build_anatomy_model has returned, no object loaded from the
\* reference file is left in the scene, whatever the names of the reference
\* objects (names differing only in letter case included), so the exported
\* file holds the created structures only.
C19_NoReferenceObjectRemains ==
    (script = "build" /\ pc \in {"export_model", "finish", "done"}) =>
        /\ \A i \in 1..Len(objects) : objects[i].origin # "reference"
        /\ Len(objects) = Len(created_objects)

\* What the claim compares of a created structure: geometry, position,
\* size, subdivision level, polygons, material colour and system tag.
StructureView(o) ==
    [ primitive |-> o.primitive, location |-> o.location, scale |-> o.scale,
      subsurf_levels |-> o.subsurf_levels, polys |-> o.polys,
      color |-> IF o.materials = << >> THEN NoVal ELSE o.materials[1].color,
      system |-> o.props["system"] ]

\* The structures a build without a reference creates: the loop body run on
\* an otherwise empty scene, entry after entry.
NoReferenceBuild ==
    [k \in 1..Len(ANATOMY_STRUCTURES) |->
        LET spec == ANATOMY_STRUCTURES[k]
            creator == Build_dispatch(spec.type)
        IN  StructureView(
                Build_finish_object(
                    [NewObj(k, spec.name, "created",
                            Build_created_polys(creator, spec.subdivisions), 0)
                       EXCEPT !.mods = Build_created_mods(creator),
                              !.primitive = Build_created_primitive(creator),
                              !.location = spec.position,
                              !.scale = Build_created_scale(creator, spec.size),
                              !.subsurf_levels =
                                  Build_created_levels(creator, spec.subdivisions)],
                    spec, bsdfInputs))]

ImportOneCounted ==
    LET e == ANATOMY_MODELS[idx]
    IN  /\ status' = "running" =>
              /\ imported_count' + skipped_count' = idx
              /\ imported_count' + skipped_count'
                    = imported_count + skipped_count + 1
        /\ e.fma \notin files =>
              /\ log' = Append(log, Ev("print_warning", e.fma))
              /\ skipped_count' = skipped_count + 1
              /\ imported_count' = imported_count
              /\ objects' = objects /\ active' = active
              /\ status' = "running"
        /\ {"Subsurface", "Subsurface Color"} \subseteq bsdfInputs =>
              status' = "running"

\* C21: whatever OBJ files are present, import_anatomy_models returns with
\* imported_count + skipped_count equal to the number of entries of
\* ANATOMY_MODELS; an entry whose file is missing prints a warning, does not
\* call the OBJ importer, is counted as skipped and leaves the scene as it
\* was.
C21_EveryEntryCountedOnce ==
    [][/\ Import_import_one => ImportOneCounted
       /\ Import_main_check_count =>
             /\ imported_count + skipped_count = Len(ANATOMY_MODELS)
             /\ Len(ANATOMY_MODELS) = 23
             /\ \A i \in 1..Len(log) :
                   log[i].op = "import_obj" => log[i].arg \in files]_vars

\* import_anatomy_models has returned with some entries imported and some
\* skipped for want of their file.
C21_Witness ==
    /\ script = "import" /\ pc = "optimize_high" /\ status = "running"
    /\ imported_count > 0 /\ skipped_count > 0
    /\ imported_count + skipped_count = Len(ANATOMY_MODELS)
    /\ \E i \in 1..Len(ANATOMY_MODELS) :
          /\ ANATOMY_MODELS[i].fma \notin files
          /\ Logged("print_warning", ANATOMY_MODELS[i].fma)
          /\ ~Logged("import_obj", ANATOMY_MODELS[i].fma)

====
